---- MODULE Spec2Model ----
(***************************************************************************)
(* A model of scripts/fetch_eufy_weight.py: the pure helpers (_parse_time, *)
(* _to_kg, _pick_scale_device, _extract_latest_weight, _extract_token,     *)
(* _read_previous_snapshot, _to_float, _get_target_weight_kg) as           *)
(* operators, and main() as a step machine over a small file system.       *)
(*                                                                         *)
(* Representation.                                                         *)
(*  - A Python/JSON value is a tagged record: JNull, JInt (an integer kept  *)
(*    as a pair <<hi, lo>> = hi * 10^6 + lo, because epoch milliseconds do  *)
(*    not fit TLC's 32-bit integers), JFloat (hundredths), JBool,           *)
(*    JStr (a sequence of one-character strings), JList, JDict (a sequence  *)
(*    of <<key, value>> pairs in insertion order).                          *)
(*  - Weights in kilograms are fixed-point, 10^-5 kg per unit.             *)
(***************************************************************************)
EXTENDS Integers, Sequences, FiniteSets, TLC

VARIABLES
    \* --- _parse_time applied to a second count and to its millisecond form
    time_value,      \* the input s, a pair <<hi, lo>>
    time_form,       \* "int" or "str": s passed as a number or as a digit string
    time_sec,        \* _parse_time(s), or "unset"
    time_ms,         \* _parse_time(s * 1000), or "unset"
    \* --- _pick_scale_device applied to a device response
    pick_devices_json,   \* the argument devices_json
    pick_force,          \* FORCE_DEVICE_ID: JNull when unset
    pick_result,         \* the device returned or the error raised, or "unset"
    \* --- _extract_latest_weight applied to a data response
    extract_data_json,   \* the argument data_json
    extract_result,      \* the weight and time returned or the error raised, or "unset"
    \* --- main()
    OUT_PATH,        \* the output path, [parent, stem, suffix]
    dir,             \* the directory: path -> inode, 0 for no file
    inodes,          \* inode -> content, a sequence of pieces
    pc,              \* instance -> where it is in main
    locals,          \* instance -> token, device_id, weight_kg, measured_at,
                     \*   payload, the inode of the open temporary file, the
                     \*   pieces written, how the previous snapshot read went
    exit_code,       \* instance -> exit code of its last run, -1 for none
    error,           \* instance -> message of the error that ended its last run
    clock,           \* ticks of datetime.now
    runs,            \* runs started
    \* --- history
    log,             \* instance -> the steps of its run so far
    out_at_start,    \* instance -> the file at the output path when its run began
    written,         \* the snapshots renamed over the output path, in order
    observed         \* what a reader last read at the output path

extractVars == <<extract_data_json, extract_result>>

timeVars == <<time_value, time_form, time_sec, time_ms>>

pickVars == <<pick_devices_json, pick_force, pick_result>>

mainVars ==
    <<OUT_PATH, dir, inodes, pc, locals, exit_code, error, clock, runs,
      log, out_at_start, written, observed>>

vars == <<timeVars, pickVars, extractVars, mainVars>>

(***************************************************************************)
(* Integers as pairs <<hi, lo>> = hi * Base + lo with 0 <= lo < Base.       *)
(***************************************************************************)
Base == 1000 * 1000

MinOf(S) == CHOOSE x \in S : \A y \in S : x <= y

BigNorm(h, l) == <<h + (l \div Base), l % Base>>

Big(n) == BigNorm(0, n)

BigGT(a, b) == a[1] > b[1] \/ (a[1] = b[1] /\ a[2] > b[2])

BigMul1000(a) == BigNorm(a[1] * 1000, a[2] * 1000)

\* a \div 1000
BigDiv1000(a) == <<a[1] \div 1000, (a[1] % 1000) * 1000 + (a[2] \div 1000)>>

\* a % 1000
BigMod1000(a) == a[2] % 1000

BigAdd(a, k) == BigNorm(a[1], a[2] + k)

\* 10^6 = 11 * 86400 + 49600
BigDiv86400(a) == a[1] * 11 + ((a[1] * 49600 + a[2]) \div 86400)

BigMod86400(a) == (a[1] * 49600 + a[2]) % 86400

(***************************************************************************)
(* Characters and strings (sequences of one-character strings).            *)
(***************************************************************************)
DigitChars == <<"0", "1", "2", "3", "4", "5", "6", "7", "8", "9">>

IsDigit(c) == \E i \in 1..10 : DigitChars[i] = c

DigitVal(c) == (CHOOSE i \in 1..10 : DigitChars[i] = c) - 1

\* The code point of a character, for the characters an ISO-8601 string holds.
Ord(c) ==
    IF IsDigit(c) THEN 48 + DigitVal(c)
    ELSE CASE c = " " -> 32
           [] c = "+" -> 43
           [] c = "-" -> 45
           [] c = "." -> 46
           [] c = ":" -> 58
           [] c = "T" -> 84
           [] c = "Z" -> 90
           [] OTHER -> 97

\* Python's a > b on strings: the first differing character decides, and a
\* proper prefix is the smaller.
StrGT(a, b) ==
    LET n == IF Len(a) < Len(b) THEN Len(a) ELSE Len(b)
        diff == {i \in 1..n : a[i] # b[i]}
    IN  IF diff = {} THEN Len(a) > Len(b)
        ELSE Ord(a[MinOf(diff)]) > Ord(b[MinOf(diff)])

AllDigits(s) == Len(s) > 0 /\ \A i \in 1..Len(s) : IsDigit(s[i])

RECURSIVE Strip(_)
\* str.strip() for the blank character
Strip(s) ==
    IF s = <<>> THEN s
    ELSE IF Head(s) = " " THEN Strip(Tail(s))
    ELSE IF s[Len(s)] = " " THEN Strip(SubSeq(s, 1, Len(s) - 1))
    ELSE s

Pad2(n) == <<DigitChars[((n \div 10) % 10) + 1], DigitChars[(n % 10) + 1]>>

Pad4(n) == Pad2(n \div 100) \o Pad2(n % 100)

Pad6(n) == Pad2(n \div 10000) \o Pad4(n % 10000)

RECURSIVE NatToDigits(_)
NatToDigits(n) ==
    IF n < 10 THEN <<DigitChars[n + 1]>>
    ELSE NatToDigits(n \div 10) \o <<DigitChars[(n % 10) + 1]>>

\* str(n) of a non-negative integer
BigToDigits(a) ==
    IF a[1] = 0 THEN NatToDigits(a[2]) ELSE NatToDigits(a[1]) \o Pad6(a[2])

RECURSIVE DigitsToBigFrom(_, _)
DigitsToBigFrom(acc, s) ==
    IF s = <<>> THEN acc
    ELSE DigitsToBigFrom(BigNorm(acc[1] * 10, acc[2] * 10 + DigitVal(Head(s))), Tail(s))

\* int(s) of an all-digit string
DigitsToBig(s) == DigitsToBigFrom(<<0, 0>>, s)

\* int(s) of a short all-digit string, as a plain integer
DigitsToNat(s) == DigitsToBig(s)[2]

(***************************************************************************)
(* Python values.                                                          *)
(***************************************************************************)
JNull == [t |-> "null"]

JInt(a) == [t |-> "int", big |-> a]

JFloat(c) == [t |-> "float", centi |-> c]

JBool(b) == [t |-> "bool", b |-> b]

JStr(s) == [t |-> "str", s |-> s]

JList(xs) == [t |-> "list", elems |-> xs]

JDict(kvs) == [t |-> "dict", items |-> kvs]

\* A result not computed yet.
Unset == [t |-> "unset"]

\* The variables of a part of the model that a specification does not use.
TimeIdle ==
    /\ time_value = <<0, 0>>
    /\ time_form = "int"
    /\ time_sec = Unset
    /\ time_ms = Unset

PickIdle ==
    /\ pick_devices_json = JNull
    /\ pick_force = JNull
    /\ pick_result = Unset

ExtractIdle ==
    /\ extract_data_json = JNull
    /\ extract_result = Unset

\* bool(value)
Truthy(v) ==
    CASE v.t = "null" -> FALSE
      [] v.t = "int" -> v.big # <<0, 0>>
      [] v.t = "float" -> v.centi # 0
      [] v.t = "bool" -> v.b
      [] v.t = "str" -> v.s # <<>>
      [] v.t = "list" -> v.elems # <<>>
      [] v.t = "dict" -> v.items # <<>>

\* dict.get(key): the value of the last pair with that key is the dict's
\* value; the model's dicts hold each key once.
Get(d, key) ==
    LET hits == {i \in 1..Len(d.items) : d.items[i][1] = key}
    IN  IF hits = {} THEN JNull ELSE d.items[MinOf(hits)][2]

HasKey(d, key) == \E i \in 1..Len(d.items) : d.items[i][1] = key

(***************************************************************************)
(* datetime: the proleptic Gregorian calendar of fromtimestamp and          *)
(* fromisoformat, for instants from 1970 on.                               *)
(***************************************************************************)
\* The date of day number z (days since 1970-01-01).
CivilFromDays(z) ==
    LET zz == z + 719468
        era == zz \div 146097
        doe == zz - era * 146097
        yoe == (doe - (doe \div 1460) + (doe \div 36524) - (doe \div 146096)) \div 365
        doy == doe - (365 * yoe + (yoe \div 4) - (yoe \div 100))
        mp == (5 * doy + 2) \div 153
        d == doy - ((153 * mp + 2) \div 5) + 1
        m == IF mp < 10 THEN mp + 3 ELSE mp - 9
        y == yoe + era * 400 + (IF m <= 2 THEN 1 ELSE 0)
    IN  [year |-> y, month |-> m, day |-> d]

\* The day number of a date.
DaysFromCivil(y, m, d) ==
    LET yy == IF m <= 2 THEN y - 1 ELSE y
        era == yy \div 400
        yoe == yy - era * 400
        mp == IF m > 2 THEN m - 3 ELSE m + 9
        doy == ((153 * mp + 2) \div 5) + d - 1
        doe == yoe * 365 + (yoe \div 4) - (yoe \div 100) + doy
    IN  era * 146097 + doe - 719468

\* days * 86400 as a pair: 86400 = 864 * 100
BigFromDays(days) == <<(days * 864) \div 10000, ((days * 864) % 10000) * 100>>

\* datetime.fromtimestamp(sec + us / 10^6, timezone.utc)
FromTimestamp(sec, us) ==
    LET date == CivilFromDays(BigDiv86400(sec))
        sod == BigMod86400(sec)
    IN  [year |-> date.year, month |-> date.month, day |-> date.day,
         hour |-> sod \div 3600, minute |-> (sod % 3600) \div 60,
         second |-> sod % 60, microsecond |-> us]

\* datetime.isoformat() of an aware UTC datetime: the fraction is printed
\* only when the microsecond field is not zero.
IsoFormat(d) ==
    Pad4(d.year) \o <<"-">> \o Pad2(d.month) \o <<"-">> \o Pad2(d.day) \o <<"T">>
    \o Pad2(d.hour) \o <<":">> \o Pad2(d.minute) \o <<":">> \o Pad2(d.second)
    \o (IF d.microsecond # 0 THEN <<".">> \o Pad6(d.microsecond) ELSE <<>>)
    \o <<"+", "0", "0", ":", "0", "0">>

UtcOffsetText == <<"+", "0", "0", ":", "0", "0">>

RECURSIVE Replace(_, _, _)
\* str.replace(old, new)
Replace(s, old, new) ==
    IF Len(s) < Len(old) THEN s
    ELSE IF SubSeq(s, 1, Len(old)) = old
         THEN new \o Replace(SubSeq(s, Len(old) + 1, Len(s)), old, new)
         ELSE <<Head(s)>> \o Replace(Tail(s), old, new)

\* The UTC offset text "+HH:MM" / "-HH:MM" in seconds; kind "naive" for no
\* offset, "bad" for anything else.
ParseOffset(s) ==
    IF s = <<>> THEN [kind |-> "naive", sec |-> 0]
    ELSE IF /\ Len(s) = 6
            /\ s[1] \in {"+", "-"}
            /\ AllDigits(SubSeq(s, 2, 3))
            /\ s[4] = ":"
            /\ AllDigits(SubSeq(s, 5, 6))
            /\ DigitsToNat(SubSeq(s, 2, 3)) < 24
            /\ DigitsToNat(SubSeq(s, 5, 6)) < 60
         THEN [kind |-> "offset",
               sec |-> (IF s[1] = "+" THEN 1 ELSE -1)
                       * (DigitsToNat(SubSeq(s, 2, 3)) * 3600
                          + DigitsToNat(SubSeq(s, 5, 6)) * 60)]
         ELSE [kind |-> "bad", sec |-> 0]

DaysInMonth(y, m) ==
    IF m = 2
    THEN (IF (y % 4 = 0 /\ y % 100 # 0) \/ y % 400 = 0 THEN 29 ELSE 28)
    ELSE IF m \in {4, 6, 9, 11} THEN 30 ELSE 31

\* datetime.fromisoformat(s) for the shapes YYYY-MM-DDTHH:MM:SS[.fff|.ffffff]
\* [+HH:MM|-HH:MM], then astimezone(utc) with a naive value taken as UTC:
\* the instant [sec, us] with ok, or ok = FALSE for ValueError.
FromIsoFormat(s) ==
    IF ~ /\ Len(s) >= 19
         /\ AllDigits(SubSeq(s, 1, 4)) /\ s[5] = "-"
         /\ AllDigits(SubSeq(s, 6, 7)) /\ s[8] = "-"
         /\ AllDigits(SubSeq(s, 9, 10)) /\ s[11] \in {"T", " "}
         /\ AllDigits(SubSeq(s, 12, 13)) /\ s[14] = ":"
         /\ AllDigits(SubSeq(s, 15, 16)) /\ s[17] = ":"
         /\ AllDigits(SubSeq(s, 18, 19))
    THEN [ok |-> FALSE]
    ELSE
    LET y == DigitsToNat(SubSeq(s, 1, 4))
        m == DigitsToNat(SubSeq(s, 6, 7))
        d == DigitsToNat(SubSeq(s, 9, 10))
        hh == DigitsToNat(SubSeq(s, 12, 13))
        mi == DigitsToNat(SubSeq(s, 15, 16))
        ss == DigitsToNat(SubSeq(s, 18, 19))
        rest == SubSeq(s, 20, Len(s))
        fracLen == IF rest # <<>> /\ Head(rest) = "."
                   THEN (IF Len(rest) >= 7 /\ AllDigits(SubSeq(rest, 2, 7)) THEN 6
                         ELSE IF Len(rest) >= 4 /\ AllDigits(SubSeq(rest, 2, 4)) THEN 3
                         ELSE -1)
                   ELSE 0
        us == IF fracLen = 6 THEN DigitsToNat(SubSeq(rest, 2, 7))
              ELSE IF fracLen = 3 THEN DigitsToNat(SubSeq(rest, 2, 4)) * 1000
              ELSE 0
        off == IF fracLen <= 0 THEN ParseOffset(rest)
               ELSE ParseOffset(SubSeq(rest, fracLen + 2, Len(rest)))
    IN  IF \/ fracLen = -1
           \/ off.kind = "bad"
           \/ y < 1970 \/ m < 1 \/ m > 12 \/ d < 1 \/ d > DaysInMonth(y, m)
           \/ hh > 23 \/ mi > 59 \/ ss > 59
        THEN [ok |-> FALSE]
        ELSE [ok |-> TRUE,
              sec |-> BigAdd(BigFromDays(DaysFromCivil(y, m, d)),
                             hh * 3600 + mi * 60 + ss - off.sec),
              us |-> us]

(***************************************************************************)
(* _parse_time                                                             *)
(***************************************************************************)
\* 10_000_000_000: a larger number is taken as milliseconds
MsThreshold == <<10000, 0>>

\* ParseEpoch with the comparison slipped to >=.
ParseEpochInclusive(n) ==
    LET ms == n = MsThreshold \/ BigGT(n, MsThreshold)
        sec == IF ms THEN BigDiv1000(n) ELSE n
        us == IF ms THEN BigMod1000(n) * 1000 ELSE 0
    IN  JStr(Replace(IsoFormat(FromTimestamp(sec, us)), UtcOffsetText, <<"Z">>))

\* The numeric branch: ts = float(value); if ts > 10_000_000_000: ts /= 1000.0;
\* fromtimestamp(ts, utc).isoformat().replace("+00:00", "Z")
ParseEpoch(n) ==
    LET sec == IF BigGT(n, MsThreshold) THEN BigDiv1000(n) ELSE n
        us == IF BigGT(n, MsThreshold) THEN BigMod1000(n) * 1000 ELSE 0
    IN  JStr(Replace(IsoFormat(FromTimestamp(sec, us)), UtcOffsetText, <<"Z">>))

\* The same branch for a float, given in hundredths.
ParseEpochFloat(c) ==
    JStr(Replace(IsoFormat(FromTimestamp(Big(c \div 100), (c % 100) * 10000)),
                 UtcOffsetText, <<"Z">>))

\* _parse_time(value): JStr of the ISO-8601 text, or JNull for None.
ParseTime(value) ==
    CASE value.t = "null" -> JNull
      [] value.t = "int" -> ParseEpoch(value.big)
      [] value.t = "bool" -> ParseEpoch(Big(IF value.b THEN 1 ELSE 0))
      [] value.t = "float" -> ParseEpochFloat(value.centi)
      [] value.t = "str" ->
            LET v == Strip(value.s)
            IN  IF v = <<>> THEN JNull
                ELSE IF AllDigits(v) THEN ParseEpoch(DigitsToBig(v))
                ELSE LET parsed == FromIsoFormat(Replace(v, <<"Z">>, UtcOffsetText))
                     IN  IF ~parsed.ok THEN JNull
                         ELSE JStr(Replace(IsoFormat(FromTimestamp(parsed.sec, parsed.us)),
                                           UtcOffsetText, <<"Z">>))
      [] OTHER -> JNull

(***************************************************************************)
(* _parse_time on a second count and on its millisecond form.              *)
(***************************************************************************)
MaxTimeLo == 2

\* The second counts tried: around 0, around 10^7 (whose millisecond form is
\* 10^10), a present-day instant, and around 10^10.
TimeSamples ==
    {<<h, l>> : h \in {0, 9, 10, 11, 1700, 9999, 10000, 10001},
                l \in (0..MaxTimeLo) \cup {Base - 1}}

TimeInit ==
    /\ time_value \in TimeSamples
    /\ time_form \in {"int", "str"}
    /\ time_sec = Unset
    /\ time_ms = Unset

TimeArg(n) == IF time_form = "int" THEN JInt(n) ELSE JStr(BigToDigits(n))

\* _parse_time(s)
ParseSeconds ==
    /\ time_sec = Unset
    /\ time_sec' = ParseTime(TimeArg(time_value))
    /\ UNCHANGED <<time_value, time_form, time_ms, pickVars, extractVars, mainVars>>

\* _parse_time(s * 1000)
ParseMillis ==
    /\ time_ms = Unset
    /\ time_ms' = ParseTime(TimeArg(BigMul1000(time_value)))
    /\ UNCHANGED <<time_value, time_form, time_sec, pickVars, extractVars, mainVars>>

TimeNext == ParseSeconds \/ ParseMillis

TimeBothParsed == time_sec # Unset /\ time_ms # Unset

\* C7 as stated: for every non-negative second count s, _parse_time(s) and
\* _parse_time(s * 1000) return the same string, in the number and in the
\* digit-string form.
C7_SecondsEqualMillis == TimeBothParsed => time_sec = time_ms

\* 10^7 < s <= 10^10
InMillisWindow(n) == BigGT(n, <<10, 0>>) /\ ~BigGT(n, MsThreshold)

\* C7 amended: for every integer s with 10,000,000 < s <= 10,000,000,000, and
\* for s = 0, _parse_time(s) and _parse_time(s * 1000) return the same
\* ISO-8601 UTC string, in the number and in the digit-string form.
C7_SecondsEqualMillisInWindow ==
    (TimeBothParsed /\ (InMillisWindow(time_value) \/ time_value = <<0, 0>>))
        => (time_sec = time_ms /\ time_sec.t = "str")

\* A present-day second count, as a digit string, parsed in both units.
C7_Witness ==
    /\ TimeBothParsed
    /\ time_value = <<1700, 1>>
    /\ time_form = "str"
    /\ time_sec = time_ms


(***************************************************************************)
(* _pick_scale_device                                                      *)
(***************************************************************************)
UpperChars == <<"A", "B", "C", "D", "E", "F", "G", "H", "I", "J", "K", "L", "M",
                "N", "O", "P", "Q", "R", "S", "T", "U", "V", "W", "X", "Y", "Z">>

LowerChars == <<"a", "b", "c", "d", "e", "f", "g", "h", "i", "j", "k", "l", "m",
                "n", "o", "p", "q", "r", "s", "t", "u", "v", "w", "x", "y", "z">>

\* str.lower()
Lower(s) ==
    [i \in 1..Len(s) |->
        IF \E k \in 1..26 : UpperChars[k] = s[i]
        THEN LowerChars[CHOOSE k \in 1..26 : UpperChars[k] = s[i]]
        ELSE s[i]]

\* needle in hay
Contains(hay, needle) ==
    \E i \in 1..(Len(hay) - Len(needle) + 1) :
        SubSeq(hay, i, i + Len(needle) - 1) = needle

RECURSIVE JoinWithSpace(_)
\* " ".join(parts)
JoinWithSpace(parts) ==
    IF parts = <<>> THEN <<>>
    ELSE IF Len(parts) = 1 THEN parts[1]
    ELSE parts[1] \o <<" ">> \o JoinWithSpace(Tail(parts))

NONE_TEXT == <<"N", "o", "n", "e">>

TRUE_TEXT == <<"T", "r", "u", "e">>

FALSE_TEXT == <<"F", "a", "l", "s", "e">>

SCALE_TEXT == <<"s", "c", "a", "l", "e">>

HEALTH_TEXT == <<"h", "e", "a", "l", "t", "h">>

BODY_TEXT == <<"b", "o", "d", "y">>

\* str(value) for None, bool, int, str and a float given in hundredths
PyStr(v) ==
    CASE v.t = "null" -> NONE_TEXT
      [] v.t = "bool" -> IF v.b THEN TRUE_TEXT ELSE FALSE_TEXT
      [] v.t = "int" -> BigToDigits(v.big)
      [] v.t = "float" ->
            NatToDigits(v.centi \div 100) \o <<".">>
            \o (IF v.centi % 10 = 0 THEN <<DigitChars[((v.centi \div 10) % 10) + 1]>>
                ELSE Pad2(v.centi % 100))
      [] v.t = "str" -> v.s

\* a or b
PyOr(a, b) == IF Truthy(a) THEN a ELSE b

IsDictValue(v) == v.t = "dict"

\* [d for d in xs if isinstance(d, dict)]
OnlyDicts(xs) == SelectSeq(xs, IsDictValue)

DeviceListKeys == <<"data", "devices", "list", "items">>

\* Lines 126-134: the device records of the response.
DevicesOf(devices_json) ==
    IF devices_json.t = "list" THEN OnlyDicts(devices_json.elems)
    ELSE IF devices_json.t = "dict"
    THEN LET hits == {k \in 1..Len(DeviceListKeys) :
                        Get(devices_json, DeviceListKeys[k]).t = "list"}
         IN  IF hits = {} THEN <<>>
             ELSE OnlyDicts(Get(devices_json, DeviceListKeys[MinOf(hits)]).elems)
    ELSE <<>>

\* d.get("id") or d.get("device_id") or d.get("deviceId")
DeviceIdOf(d) == PyOr(PyOr(Get(d, "id"), Get(d, "device_id")), Get(d, "deviceId"))

\* texts = " ".join(str(v).lower() for v in d.values() if isinstance(v, str))
TextsOf(d) ==
    LET IsStrItem(kv) == kv[2].t = "str"
        strs == SelectSeq(d.items, IsStrItem)
    IN  JoinWithSpace([i \in 1..Len(strs) |-> Lower(strs[i][2].s)])

\* Lines 149-155
ScoreOf(d) ==
    (IF Contains(TextsOf(d), SCALE_TEXT) THEN 4 ELSE 0)
    + (IF Contains(TextsOf(d), HEALTH_TEXT) THEN 2 ELSE 0)
    + (IF Contains(TextsOf(d), BODY_TEXT) THEN 1 ELSE 0)

RECURSIVE InsertDescLast(_, _)
\* x put behind every element whose score is at least its own
InsertDescLast(x, sorted) ==
    IF sorted = <<>> THEN <<x>>
    ELSE IF Head(sorted)[1] >= x[1] THEN <<Head(sorted)>> \o InsertDescLast(x, Tail(sorted))
    ELSE <<x>> \o sorted

RECURSIVE InsertDescFirst(_, _)
\* x put before every element whose score is at most its own
InsertDescFirst(x, sorted) ==
    IF sorted = <<>> THEN <<x>>
    ELSE IF Head(sorted)[1] > x[1] THEN <<Head(sorted)>> \o InsertDescFirst(x, Tail(sorted))
    ELSE <<x>> \o sorted

RECURSIVE SortDescReversingTies(_)
\* A descending sort that is not stable: equal scores come out in reverse.
SortDescReversingTies(scored) ==
    IF scored = <<>> THEN <<>>
    ELSE InsertDescFirst(scored[Len(scored)],
                         SortDescReversingTies(SubSeq(scored, 1, Len(scored) - 1)))

RECURSIVE SortDescStable(_)
\* scored.sort(key=lambda x: x[0], reverse=True): descending by score, equal
\* scores kept in their original order (list.sort is stable, also reversed)
SortDescStable(scored) ==
    IF scored = <<>> THEN <<>>
    ELSE InsertDescLast(scored[Len(scored)],
                        SortDescStable(SubSeq(scored, 1, Len(scored) - 1)))

NoDevicesError == "No devices found in response"

NotFoundError == "EUFY_DEVICE_ID was not found"

Raise(msg) == [ok |-> FALSE, error |-> msg]

\* _pick_scale_device(devices_json) under FORCE_DEVICE_ID = force: the device
\* returned, with its position in the normalised device list, or the error.
PickScaleDevice(devices_json, force) ==
    LET devices == DevicesOf(devices_json)
    IN  IF devices = <<>> THEN Raise(NoDevicesError)
        ELSE IF Truthy(force)
        THEN LET hits == {i \in 1..Len(devices) : PyStr(DeviceIdOf(devices[i])) = force.s}
             IN  IF hits = {} THEN Raise(NotFoundError)
                 ELSE [ok |-> TRUE, index |-> MinOf(hits), device |-> devices[MinOf(hits)]]
        ELSE LET scored == [i \in 1..Len(devices) |-> <<ScoreOf(devices[i]), i>>]
                 first == SortDescStable(scored)[1]
             IN  [ok |-> TRUE, index |-> first[2], device |-> devices[first[2]]]

(***************************************************************************)
(* _pick_scale_device applied to bounded device responses.                 *)
(***************************************************************************)
DevOfficeScale ==
    JDict(<<<<"id", JInt(Big(1))>>, <<"name", JStr(<<"O", "f", "f", "i", "c", "e", " ", "S", "c", "a", "l", "e">>)>>>>)

DevBodyHealthZero ==
    JDict(<<<<"id", JInt(Big(0))>>, <<"name", JStr(<<"B", "o", "d", "y", " ", "H", "e", "a", "l", "t", "h">>)>>>>)

DevSmartScaleStr5 ==
    JDict(<<<<"device_id", JStr(<<"5">>)>>, <<"product", JStr(<<"S", "m", "a", "r", "t", " ", "S", "C", "A", "L", "E">>)>>, <<"category", JStr(<<"h", "e", "a", "l", "t", "h">>)>>>>)

DevLampEmptyId ==
    JDict(<<<<"id", JStr(<<>>)>>, <<"deviceId", JInt(Big(7))>>, <<"name", JStr(<<"l", "a", "m", "p">>)>>>>)

DevSplitWordNoId ==
    JDict(<<<<"name", JStr(<<"b", "o", "d", "y">>)>>, <<"alias", JStr(<<"s", "c", "a">>)>>, <<"note", JStr(<<"l", "e">>)>>>>)

DevScaleInt5 ==
    JDict(<<<<"id", JInt(Big(5))>>, <<"name", JStr(<<"S", "c", "a", "l", "e">>)>>, <<"online", JBool(TRUE)>>>>)

\* What a device response may hold: device records with the three id keys,
\* ids that are 0, empty, a string or a number, keywords in several cases and
\* split across fields, and an entry that is no record.
DeviceUniverse ==
    {DevOfficeScale, DevBodyHealthZero, DevSmartScaleStr5, DevLampEmptyId, DevSplitWordNoId, DevScaleInt5,
     JStr(<<"n", "/", "a">>)}

MaxDevices == 3

RECURSIVE SeqsUpTo(_, _)
\* The sequences over S of length at most n.
SeqsUpTo(S, n) ==
    IF n = 0 THEN {<<>>}
    ELSE LET shorter == SeqsUpTo(S, n - 1)
         IN  shorter \cup {Append(q, x) : q \in {r \in shorter : Len(r) = n - 1}, x \in S}

\* EUFY_DEVICE_ID: unset, empty, or an id text
ForceChoices ==
    {JNull, JStr(<<>>), JStr(<<"0">>), JStr(<<"5">>), JStr(<<"7">>), JStr(<<"N", "o", "n", "e">>)}

PickInit ==
    /\ \E elems \in SeqsUpTo(DeviceUniverse, MaxDevices) :
          pick_devices_json \in
              {JList(elems), JDict(<<<<"data", JNull>>, <<"devices", JList(elems)>>>>)}
    /\ pick_force \in ForceChoices
    /\ pick_result = Unset

\* _pick_scale_device(devices_json)
Pick ==
    /\ pick_result = Unset
    /\ pick_result' = PickScaleDevice(pick_devices_json, pick_force)
    /\ UNCHANGED <<pick_devices_json, pick_force, timeVars, extractVars, mainVars>>

PickDevices == DevicesOf(pick_devices_json)

\* C8: with no override id set and a non-empty list of device records, the
\* device returned is the first one in list order among those of the
\* maximum score.
C8_HighestScoreFirstWins ==
    (pick_result # Unset /\ ~Truthy(pick_force) /\ PickDevices # <<>>) =>
        /\ pick_result.ok
        /\ pick_result.device = PickDevices[pick_result.index]
        /\ \A j \in 1..Len(PickDevices) :
              /\ ScoreOf(PickDevices[j]) <= ScoreOf(pick_result.device)
              /\ ScoreOf(PickDevices[j]) = ScoreOf(pick_result.device)
                    => pick_result.index <= j

\* Two different devices share the maximum score, behind a lower-scoring one.
C8_Witness ==
    /\ pick_result # Unset
    /\ pick_force = JNull
    /\ Len(PickDevices) = 3
    /\ pick_result.ok
    /\ pick_result.index = 2
    /\ ScoreOf(PickDevices[1]) < ScoreOf(PickDevices[2])
    /\ ScoreOf(PickDevices[3]) = ScoreOf(PickDevices[2])
    /\ PickDevices[3] # PickDevices[2]

IdKeys == <<"id", "device_id", "deviceId">>

HasIdKey(d) == \E k \in 1..3 : HasKey(d, IdKeys[k])

\* The first of id, device_id, deviceId that the record holds.
FirstPresentId(d) == Get(d, IdKeys[MinOf({k \in 1..3 : HasKey(d, IdKeys[k])})])

\* C9: with an override id set, the device returned is the first in list
\* order whose first present id field stringifies to the override (an id of
\* 0 included); with no such device the call fails with the not-found error;
\* a device with no id, or with another id, is never returned.
C9_OverrideFirstPresentIdMatch ==
    (pick_result # Unset /\ Truthy(pick_force) /\ PickDevices # <<>>) =>
        LET matches == {i \in 1..Len(PickDevices) :
                          /\ HasIdKey(PickDevices[i])
                          /\ PyStr(FirstPresentId(PickDevices[i])) = pick_force.s}
        IN  IF matches = {}
            THEN ~pick_result.ok /\ pick_result.error = NotFoundError
            ELSE pick_result.ok /\ pick_result.index = MinOf(matches)



(***************************************************************************)
(* _iter_dicts, _to_kg, _extract_latest_weight                             *)
(***************************************************************************)
RECURSIVE IterDicts(_)
RECURSIVE IterDictsOfAll(_)
\* _iter_dicts(value): the dicts reachable through dict values and list
\* items, a dict before its children, children in order.
IterDicts(value) ==
    IF value.t = "dict"
    THEN <<value>> \o IterDictsOfAll([i \in 1..Len(value.items) |-> value.items[i][2]])
    ELSE IF value.t = "list" THEN IterDictsOfAll(value.elems)
    ELSE <<>>

IterDictsOfAll(values) ==
    IF values = <<>> THEN <<>>
    ELSE IterDicts(Head(values)) \o IterDictsOfAll(Tail(values))

\* float(text) for the decimal texts DIGITS and DIGITS.D or DIGITS.DD, blanks
\* around them stripped: the value in hundredths, or ok = FALSE (ValueError).
FloatOfText(text) ==
    LET v == Strip(text)
        dots == {i \in 1..Len(v) : v[i] = "."}
    IN  IF AllDigits(v) /\ Len(v) <= 5 THEN [ok |-> TRUE, centi |-> DigitsToNat(v) * 100]
        ELSE IF /\ Cardinality(dots) = 1
                /\ MinOf(dots) > 1
                /\ MinOf(dots) <= 6
                /\ Len(v) - MinOf(dots) \in {1, 2}
                /\ AllDigits(SubSeq(v, 1, MinOf(dots) - 1))
                /\ AllDigits(SubSeq(v, MinOf(dots) + 1, Len(v)))
        THEN [ok |-> TRUE,
              centi |-> DigitsToNat(SubSeq(v, 1, MinOf(dots) - 1)) * 100
                        + (IF Len(v) - MinOf(dots) = 1
                           THEN DigitsToNat(SubSeq(v, MinOf(dots) + 1, Len(v))) * 10
                           ELSE DigitsToNat(SubSeq(v, MinOf(dots) + 1, Len(v))))]
        ELSE [ok |-> FALSE]

\* Lines 174-182 and 229-237: a number (bool included, as isinstance(value,
\* (int, float)) takes it) or a numeric text as a float, in hundredths.
ToFloat(value) ==
    CASE value.t = "int" -> [ok |-> TRUE, centi |-> value.big[2] * 100]
      [] value.t = "float" -> [ok |-> TRUE, centi |-> value.centi]
      [] value.t = "bool" -> [ok |-> TRUE, centi |-> IF value.b THEN 100 ELSE 0]
      [] value.t = "str" -> FloatOfText(value.s)
      [] OTHER -> [ok |-> FALSE]

KG_UNITS ==
    {<<"k", "g">>,
     <<"k", "g", "s">>,
     <<"k", "i", "l", "o", "g", "r", "a", "m">>,
     <<"k", "i", "l", "o", "g", "r", "a", "m", "s">>}

LB_UNITS ==
    {<<"l", "b">>,
     <<"l", "b", "s">>,
     <<"p", "o", "u", "n", "d">>,
     <<"p", "o", "u", "n", "d", "s">>}

G_UNITS ==
    {<<"g">>,
     <<"g", "r", "a", "m">>,
     <<"g", "r", "a", "m", "s">>}

JIN_UNITS ==
    {<<"j", "i", "n">>}

\* Kilograms are fixed-point: KgScale units per kilogram.
KgScale == 100 * 1000

\* _to_kg(weight, unit), the weight in hundredths of the unit, the result in
\* 10^-5 kg: kg as is, lb * 0.45359237 (453.59237 units per hundredth of a
\* pound, cut to a whole unit), g / 1000, jin * 0.5, anything else as is.
ToKg(centi, unit) ==
    IF ~Truthy(unit) THEN centi * 1000
    ELSE LET u == Lower(Strip(unit.s))
         IN  IF u \in KG_UNITS THEN centi * 1000
             ELSE IF u \in LB_UNITS THEN centi * 453 + ((centi * 59237) \div 100000)
             ELSE IF u \in G_UNITS THEN centi
             ELSE IF u \in JIN_UNITS THEN centi * 500
             ELSE centi * 1000

TimeKeys ==
    <<"time", "timestamp", "measureTime", "measuredAt", "created_at", "createdAt", "date">>

WeightKeys == <<"weight", "weight_kg", "weightKg", "body_weight", "bodyWeight">>

UnitKeys == <<"unit", "weight_unit", "weightUnit">>

\* Lines 171-182: the first weight key holding a number or a numeric text.
FoundWeight(node) ==
    LET hits == {k \in 1..Len(WeightKeys) : ToFloat(Get(node, WeightKeys[k])).ok}
    IN  IF hits = {} THEN [ok |-> FALSE]
        ELSE ToFloat(Get(node, WeightKeys[MinOf(hits)]))

\* Lines 187-192: the first unit key holding a text that is not blank.
FoundUnit(node) ==
    LET hits == {k \in 1..Len(UnitKeys) :
                    /\ Get(node, UnitKeys[k]).t = "str"
                    /\ Strip(Get(node, UnitKeys[k]).s) # <<>>}
    IN  IF hits = {} THEN JNull ELSE Get(node, UnitKeys[MinOf(hits)])

\* Lines 194-198: the first time key that parses.
FoundTime(node) ==
    LET hits == {k \in 1..Len(TimeKeys) : Truthy(ParseTime(Get(node, TimeKeys[k])))}
    IN  IF hits = {} THEN JNull ELSE ParseTime(Get(node, TimeKeys[MinOf(hits)]))

NoBest == [found |-> FALSE, weight_kg |-> 0, time_iso |-> JNull]

\* Lines 200-208: one turn of the loop for a node that has a weight.
BetterOf(best, weight_kg, time_iso) ==
    IF ~best.found THEN [found |-> TRUE, weight_kg |-> weight_kg, time_iso |-> time_iso]
    ELSE IF /\ Truthy(time_iso)
            /\ (best.time_iso.t = "null" \/ StrGT(time_iso.s, best.time_iso.s))
    THEN [found |-> TRUE, weight_kg |-> weight_kg, time_iso |-> time_iso]
    ELSE best

RECURSIVE ScanNodes(_, _)
\* The loop of lines 170-208 over the nodes left.
ScanNodes(nodes, best) ==
    IF nodes = <<>> THEN best
    ELSE LET node == Head(nodes)
             w == FoundWeight(node)
         IN  IF ~w.ok THEN ScanNodes(Tail(nodes), best)
             ELSE ScanNodes(Tail(nodes),
                            BetterOf(best, ToKg(w.centi, FoundUnit(node)), FoundTime(node)))

NoWeightError == "Could not find a weight value in device data"

\* _extract_latest_weight(data_json)
ExtractLatestWeight(data_json) ==
    LET best == ScanNodes(IterDicts(data_json), NoBest)
    IN  IF ~best.found THEN Raise(NoWeightError)
        ELSE [ok |-> TRUE, weight_kg |-> best.weight_kg, measured_at |-> best.time_iso]

(***************************************************************************)
(* _extract_latest_weight applied to bounded data payloads.                *)
(***************************************************************************)
WeightKg70 ==
    <<<<"weight", JInt(<<0, 70>>)>>, <<"unit", JStr(<<"k", "g">>)>>>>

WeightText71 ==
    <<<<"weight", JStr(<<"n", "/", "a">>)>>, <<"weightKg", JStr(<<"7", "1", ".", "5">>)>>>>

WeightLb160 ==
    <<<<"body_weight", JInt(<<0, 160>>)>>, <<"weight_unit", JStr(<<" ">>)>>, <<"weightUnit", JStr(<<" ", "L", "B", " ">>)>>>>

WeightNone ==
    <<<<"note", JStr(<<"b", "a", "t", "t", "e", "r", "y">>)>>>>

TimeUntimed ==
    <<>>

TimeSeconds ==
    <<<<"time", JInt(<<1700, 0>>)>>>>

TimeMillis ==
    <<<<"timestamp", JInt(<<1700000, 500>>)>>>>

TimeIsoNextSecond ==
    <<<<"measuredAt", JStr(<<"2", "0", "2", "3", "-", "1", "1", "-", "1", "4", "T", "2", "2", ":", "1", "3", ":", "2", "1", "Z">>)>>>>

TimeDigitText ==
    <<<<"time", JStr(<<"s", "o", "o", "n">>)>>, <<"createdAt", JStr(<<"1", "7", "0", "0", "0", "0", "0", "0", "0", "0", "2", "5", "0">>)>>>>

TimeIsoOffset ==
    <<<<"date", JStr(<<"2", "0", "2", "3", "-", "1", "1", "-", "1", "5", "T", "0", "7", ":", "1", "3", ":", "2", "0", ".", "2", "5", "0", "+", "0", "9", ":", "0", "0">>)>>>>

\* The fields of a measurement object: a weight as a number, as a numeric text
\* behind an unparsable one, in pounds, or none; a timestamp in epoch seconds,
\* epoch milliseconds, ISO-8601 with and without a fraction and with an
\* offset, a digit text, or none.
WeightFields == {WeightKg70, WeightText71, WeightLb160, WeightNone}

TimeFields == {TimeUntimed, TimeSeconds, TimeMillis, TimeIsoNextSecond, TimeDigitText, TimeIsoOffset}

NodeUniverse == {JDict(w \o tm) : w \in WeightFields, tm \in TimeFields}

MaxNodes == 3

\* The payload shapes: a list of objects, the list two objects deep, and the
\* later objects nested in the first one.
PayloadsOf(nodes) ==
    {JList(nodes),
     JDict(<<<<"code", JInt(<<0, 0>>)>>, <<"data", JDict(<<<<"records", JList(nodes)>>>>)>>>>)}
    \cup (IF nodes = <<>> THEN {}
          ELSE {JDict(nodes[1].items \o <<<<"history", JList(Tail(nodes))>>>>)})

ExtractInit ==
    /\ \E nodes \in SeqsUpTo(NodeUniverse, MaxNodes) : extract_data_json \in PayloadsOf(nodes)
    /\ extract_result = Unset

\* _extract_latest_weight(data_json)
Extract ==
    /\ extract_result = Unset
    /\ extract_result' = ExtractLatestWeight(extract_data_json)
    /\ UNCHANGED <<extract_data_json, timeVars, pickVars, mainVars>>

\* The instant an ISO-8601 UTC text of _parse_time denotes.
InstantOf(iso) == FromIsoFormat(Replace(iso.s, <<"Z">>, UtcOffsetText))

\* Instant a is later than instant b.
Later(a, b) == BigGT(a.sec, b.sec) \/ (a.sec = b.sec /\ a.us > b.us)

\* The objects of the payload with a parseable weight, in traversal order.
Qualifying(data_json) ==
    LET HasWeight(node) == FoundWeight(node).ok
    IN  SelectSeq(IterDicts(data_json), HasWeight)

\* C6: of a payload with at least one object with a parseable weight, the
\* result is the kilogram weight and timestamp of the qualifying object whose
\* timestamp is chronologically latest (the first in traversal order among
\* equal ones), whatever forms the timestamps have; with no timestamp at all
\* it is the first qualifying object.
C6_ChronologicallyLatestWins ==
    LET q == Qualifying(extract_data_json)
        timed == {i \in 1..Len(q) : Truthy(FoundTime(q[i]))}
        latest == {i \in timed :
                     \A j \in timed :
                        /\ ~Later(InstantOf(FoundTime(q[j])), InstantOf(FoundTime(q[i])))
                        /\ InstantOf(FoundTime(q[j])) = InstantOf(FoundTime(q[i])) => i <= j}
        chosen == IF timed = {} THEN 1 ELSE MinOf(latest)
    IN  (extract_result # Unset /\ q # <<>>) =>
            /\ extract_result.ok
            /\ extract_result.weight_kg
                  = ToKg(FoundWeight(q[chosen]).centi, FoundUnit(q[chosen]))
            /\ extract_result.measured_at = FoundTime(q[chosen])


(***************************************************************************)
(* _extract_token, _read_previous_snapshot, _get_target_weight_kg and the  *)
(* payload of main.                                                        *)
(***************************************************************************)
IsToken(v) == v.t = "str" /\ v.s # <<>>

NoTokenError == "Login response did not include an access token"

\* _extract_token(login_json)
ExtractToken(login_json) ==
    LET top == IF login_json.t = "dict"
               THEN <<Get(login_json, "access_token"), Get(login_json, "token")>>
               ELSE <<>>
        data == IF login_json.t = "dict" THEN Get(login_json, "data") ELSE JNull
        nested == IF data.t = "dict"
                  THEN <<Get(data, "access_token"), Get(data, "token"), Get(data, "auth_token")>>
                  ELSE <<>>
        candidates == top \o nested
        hits == {i \in 1..Len(candidates) : IsToken(candidates[i])}
    IN  IF hits = {} THEN Raise(NoTokenError)
        ELSE [ok |-> TRUE, token |-> candidates[MinOf(hits)]]

\* A file holds a document in ChunksPerDoc pieces; a write puts one piece.
ChunksPerDoc == 2

Hole == [doc |-> [kind |-> "hole"], part |-> 0]

\* The pieces of a whole document, in order.
FileOf(doc) == [k \in 1..ChunksPerDoc |-> [doc |-> doc, part |-> k]]

IsComplete(content) == Len(content) = ChunksPerDoc /\ content = FileOf(content[1].doc)

\* json.dumps(payload, ensure_ascii=True, indent=2) + "\n", and json.loads
\* of it: the document keeps the value (a dict of text keys with floats,
\* texts and null survives the round trip unchanged).
JsonDumps(value) == [kind |-> "json", value |-> value]

EmptyDict == JDict(<<>>)

UnicodeError == "UnicodeDecodeError"

\* The results _read_previous_snapshot(path) can have for the file at path:
\* no file gives {}; an OSError while reading gives {}; bytes that are not
\* UTF-8 raise UnicodeDecodeError, which the except clause does not name;
\* text that is not JSON gives {}; JSON that is no object gives {}. A file
\* caught half-written is not JSON, or, made of pieces of several
\* snapshots, may parse as any of them.
ReadOutcomes(file) ==
    IF ~file.exists THEN {[ok |-> TRUE, value |-> EmptyDict, case |-> "absent"]}
    ELSE {[ok |-> TRUE, value |-> EmptyDict, case |-> "io_error"]}
         \cup
         (IF IsComplete(file.content)
          THEN LET doc == file.content[1].doc
               IN  IF doc.kind = "not_utf8"
                   THEN {[ok |-> FALSE, error |-> UnicodeError, case |-> "not_utf8"]}
                   ELSE IF doc.kind = "not_json"
                   THEN {[ok |-> TRUE, value |-> EmptyDict, case |-> "not_json"]}
                   ELSE IF doc.value.t = "dict"
                   THEN {[ok |-> TRUE, value |-> doc.value, case |-> "object"]}
                   ELSE {[ok |-> TRUE, value |-> EmptyDict, case |-> "non_object"]}
          ELSE {[ok |-> TRUE, value |-> EmptyDict, case |-> "partial"]}
               \cup {[ok |-> TRUE, value |-> file.content[k].doc.value, case |-> "mixed"] :
                        k \in {j \in 1..Len(file.content) :
                                 /\ Len(file.content) = ChunksPerDoc
                                 /\ \A i \in 1..Len(file.content) :
                                       file.content[i].doc.kind = "json"}})

\* 55.0, in hundredths
DefaultTargetCenti == 5500

TargetError == "TARGET_WEIGHT_KG must be a number"

\* _get_target_weight_kg() under TARGET_WEIGHT_KG = raw, in 10^-5 kg
GetTargetWeightKg(raw) ==
    IF raw.t = "null" THEN [ok |-> TRUE, kg |-> DefaultTargetCenti * 1000]
    ELSE IF Strip(raw.s) = <<>> THEN [ok |-> TRUE, kg |-> DefaultTargetCenti * 1000]
    ELSE IF FloatOfText(Strip(raw.s)).ok
    THEN [ok |-> TRUE, kg |-> FloatOfText(Strip(raw.s)).centi * 1000]
    ELSE Raise(TargetError)

\* round(x, 1) of a weight in 10^-5 kg, as the float it gives (hundredths):
\* to the nearest tenth, a tie to the even tenth.
Round1(x) ==
    LET q == x \div (KgScale \div 10)
        r == x % (KgScale \div 10)
    IN  JFloat(10 * (IF r * 2 > KgScale \div 10 \/ (r * 2 = KgScale \div 10 /\ q % 2 = 1)
                     THEN q + 1 ELSE q))

\* Line 290 with the previous value dropped: always the current reading.
InitialWeightKgFromReading(previous_initial, weight_kg) == weight_kg

\* Lines 289-290: initial_weight_kg, in 10^-5 kg, from
\* previous_initial = _to_float(previous.get("initialWeightKg"))
InitialWeightKg(previous_initial, weight_kg) ==
    IF previous_initial.ok THEN previous_initial.centi * 1000 ELSE weight_kg

EUFY_TEXT == <<"e", "u", "f", "y">>

OK_TEXT == <<"o", "k">>

\* Lines 293-301
Payload(weight_kg, target_weight_kg, initial_weight_kg, measured_at, now_iso) ==
    JDict(<<<<"source", JStr(EUFY_TEXT)>>,
            <<"weightKg", Round1(weight_kg)>>,
            <<"targetWeightKg", Round1(target_weight_kg)>>,
            <<"initialWeightKg", Round1(initial_weight_kg)>>,
            <<"measuredAt", measured_at>>,
            <<"updatedAt", now_iso>>,
            <<"status", JStr(OK_TEXT)>>>>)

\* Path.with_suffix(suffix): the last suffix replaced, or the suffix added
WithSuffix(path, suffix) == [path EXCEPT !.suffix = suffix]

\* tmp_path = OUT_PATH.with_suffix(".tmp")
TmpPathOf(out_path) == WithSuffix(out_path, ".tmp")


(***************************************************************************)
(* main(): the instances, the file system and the vendor's responses.      *)
(***************************************************************************)
\* The instances of the script that may run.
Procs == {1, 2}

MaxRuns == 2

\* Every inode named by a path or held open by an instance can be told apart.
InodeIds == 1..(Cardinality(Procs) + 2)

\* OUT_PATH (WEIGHT_OUTPUT_PATH): the default, and a path whose suffix is
\* already ".tmp"
OutPathChoices ==
    {[parent |-> "public/data", stem |-> "weight", suffix |-> s] : s \in {".json", ".tmp"}}

PathsOf(out_path) == {out_path, TmpPathOf(out_path)}

\* What the output path may hold before the first run.
OriginalDocs ==
    {[kind |-> "not_utf8"],
     [kind |-> "not_json"],
     JsonDumps(JList(<<JInt(<<0, 80>>)>>)),
     JsonDumps(JDict(<<<<"status", JStr(<<"o", "k">>)>>>>)),
     JsonDumps(JDict(<<<<"initialWeightKg", JFloat(8004)>>, <<"status", JStr(<<"o", "k">>)>>>>)),
     JsonDumps(JDict(<<<<"initialWeightKg", JStr(<<"8", "0", ".", "2", "5">>)>>>>)),
     JsonDumps(JDict(<<<<"initialWeightKg", JStr(<<"u", "n", "k", "n", "o", "w", "n">>)>>>>))}

HttpError == [ok |-> FALSE, error |-> "HTTP or network error"]

HttpOk(json) == [ok |-> TRUE, json |-> json]

\* What _request_json may return or raise for the login request,
LoginOutcomes ==
    {HttpError,
     HttpOk(JDict(<<<<"data", JDict(<<<<"token", JStr(<<"a", "b", "c">>)>>>>)>>>>)),
     HttpOk(JDict(<<<<"code", JInt(<<0, 401>>)>>, <<"token", JStr(<<>>)>>>>))}

\* for the devices request,
DevicesOutcomes ==
    {HttpError,
     HttpOk(JDict(<<<<"devices", JList(<<DevOfficeScale>>)>>>>)),
     HttpOk(JDict(<<<<"devices", JList(<<>>)>>>>)),
     HttpOk(JList(<<DevSplitWordNoId>>))}

\* and for the data request.
DataOutcomes ==
    {HttpError,
     HttpOk(JDict(<<<<"data", JList(<<JDict(<<<<"weight", JInt(<<0, 175>>)>>, <<"unit", JStr(<<"l", "b">>)>>>>)>>)>>>>)),
     HttpOk(JList(<<JDict(<<<<"weight", JStr(<<"7", "5", ".", "0", "4">>)>>, <<"time", JInt(<<1700, 0>>)>>>>)>>)),
     HttpOk(JDict(<<<<"msg", JStr(<<"e", "m", "p", "t", "y">>)>>>>))}

\* EUFY_DEVICE_ID
MainForceChoices == {JNull, JStr(<<"5">>)}

\* TARGET_WEIGHT_KG
TargetChoices == {JNull, JStr(<<"6", "0", ".", "5">>), JStr(<<"h", "e", "a", "v", "y">>)}

NoIdError == "Selected device does not include an id"

CredentialsError == "credentials are required"

ReplaceError == "FileNotFoundError"

NoLocals ==
    [token |-> JNull, device_id |-> JNull, weight_kg |-> 0, measured_at |-> JNull,
     payload |-> JNull, fd |-> 0, offset |-> 0, read_case |-> "none"]

NoFile == [exists |-> FALSE, content |-> <<>>]

\* The file a path names.
FileAt(path) ==
    IF dir[path] = 0 THEN NoFile ELSE [exists |-> TRUE, content |-> inodes[dir[path]]]

OutFile == FileAt(OUT_PATH)

\* The inode table with the inodes that no path names and no instance holds
\* open emptied for reuse.
Collect(dirN, inodesN, localsN) ==
    [i \in InodeIds |->
        IF (\E path \in DOMAIN dirN : dirN[path] = i) \/ (\E p \in Procs : localsN[p].fd = i)
        THEN inodesN[i] ELSE <<>>]

FreeInode ==
    MinOf({i \in InodeIds :
             /\ \A path \in DOMAIN dir : dir[path] # i
             /\ \A p \in Procs : locals[p].fd # i})

\* datetime.now(timezone.utc).isoformat().replace("+00:00", "Z") at tick n
NowIso(n) == ParseEpoch(<<1700, 100 + n>>)

\* content with piece written at position k (a gap before it is a hole)
WriteAt(content, k, piece) ==
    [i \in 1..(IF Len(content) > k THEN Len(content) ELSE k) |->
        IF i = k THEN piece
        ELSE IF i <= Len(content) THEN content[i] ELSE Hole]

MainIdle ==
    /\ OUT_PATH = [parent |-> "public/data", stem |-> "weight", suffix |-> ".json"]
    /\ dir = [path \in PathsOf(OUT_PATH) |-> 0]
    /\ inodes = [i \in InodeIds |-> <<>>]
    /\ pc = [p \in Procs |-> "idle"]
    /\ locals = [p \in Procs |-> NoLocals]
    /\ exit_code = [p \in Procs |-> -1]
    /\ error = [p \in Procs |-> ""]
    /\ log = [p \in Procs |-> <<>>]
    /\ out_at_start = [p \in Procs |-> NoFile]
    /\ written = <<>>
    /\ clock = 0
    /\ runs = 0
    /\ observed = NoFile

MainInit ==
    /\ OUT_PATH \in OutPathChoices
    /\ \E original \in {NoFile} \cup
                       {[exists |-> TRUE, content |-> FileOf(doc)] : doc \in OriginalDocs} :
          /\ dir = [path \in PathsOf(OUT_PATH) |->
                       IF path = OUT_PATH /\ original.exists THEN 1 ELSE 0]
          /\ inodes = [i \in InodeIds |-> IF i = 1 THEN original.content ELSE <<>>]
          /\ observed = original
    /\ pc = [p \in Procs |-> "idle"]
    /\ locals = [p \in Procs |-> NoLocals]
    /\ exit_code = [p \in Procs |-> -1]
    /\ error = [p \in Procs |-> ""]
    /\ log = [p \in Procs |-> <<>>]
    /\ out_at_start = [p \in Procs |-> NoFile]
    /\ written = <<>>
    /\ clock = 0
    /\ runs = 0


pureVars == <<timeVars, pickVars, extractVars>>

Active(p) == pc[p] \notin {"idle", "exited", "killed"}

Logged(p, step, ok) == log' = [log EXCEPT ![p] = Append(@, [step |-> step, ok |-> ok])]

\* The run ends without the exit code that reports the error.
FailedExitZero(p, msg) ==
    /\ pc' = [pc EXCEPT ![p] = "exited"]
    /\ exit_code' = [exit_code EXCEPT ![p] = 0]
    /\ error' = [error EXCEPT ![p] = msg]
    /\ locals' = [locals EXCEPT ![p] = NoLocals]

\* Lines 255-257 and 313-317: the run ends with the message on the error
\* stream and exit code 1.
Failed(p, msg) ==
    /\ pc' = [pc EXCEPT ![p] = "exited"]
    /\ exit_code' = [exit_code EXCEPT ![p] = 1]
    /\ error' = [error EXCEPT ![p] = msg]
    /\ locals' = [locals EXCEPT ![p] = NoLocals]

\* Lines 253-257: a run begins; without the four credentials it ends at once.
Start(p) ==
    /\ pc[p] \in {"idle", "exited"}
    /\ runs < MaxRuns
    /\ runs' = runs + 1
    /\ out_at_start' = [out_at_start EXCEPT ![p] = OutFile]
    /\ log' = [log EXCEPT ![p] = <<>>]
    /\ \E have_credentials \in BOOLEAN :
          IF have_credentials
          THEN /\ pc' = [pc EXCEPT ![p] = "login"]
               /\ exit_code' = [exit_code EXCEPT ![p] = -1]
               /\ error' = [error EXCEPT ![p] = ""]
               /\ locals' = [locals EXCEPT ![p] = NoLocals]
          ELSE Failed(p, CredentialsError)
    /\ UNCHANGED <<OUT_PATH, dir, inodes, clock, written, observed, pureVars>>

\* Login that asks again when the request fails.
LoginWithRetry(p) ==
    /\ pc[p] = "login"
    /\ \E resp \in LoginOutcomes :
          \E tok \in {IF resp.ok THEN ExtractToken(resp.json) ELSE resp} :
              /\ Logged(p, "login", tok.ok)
              /\ IF tok.ok
                 THEN /\ pc' = [pc EXCEPT ![p] = "devices"]
                      /\ locals' = [locals EXCEPT ![p].token = tok.token]
                      /\ UNCHANGED <<exit_code, error>>
                 ELSE IF Len(log[p]) < 1
                 THEN UNCHANGED <<pc, locals, exit_code, error>>
                 ELSE Failed(p, tok.error)
    /\ UNCHANGED <<OUT_PATH, dir, inodes, clock, runs, out_at_start, written, observed, pureVars>>

\* Lines 269-270: the login request and the token of its response.
Login(p) ==
    /\ pc[p] = "login"
    /\ \E resp \in LoginOutcomes :
          \E tok \in {IF resp.ok THEN ExtractToken(resp.json) ELSE resp} :
              /\ Logged(p, "login", tok.ok)
              /\ IF tok.ok
                 THEN /\ pc' = [pc EXCEPT ![p] = "devices"]
                      /\ locals' = [locals EXCEPT ![p].token = tok.token]
                      /\ UNCHANGED <<exit_code, error>>
                 ELSE Failed(p, tok.error)
    /\ UNCHANGED <<OUT_PATH, dir, inodes, clock, runs, out_at_start, written, observed, pureVars>>

\* Lines 277-281: the devices request, the device picked and its id.
Devices(p) ==
    /\ pc[p] = "devices"
    /\ \E resp \in DevicesOutcomes, force \in MainForceChoices :
          \E picked \in {IF resp.ok THEN PickScaleDevice(resp.json, force) ELSE resp} :
          \E device_id \in {IF picked.ok THEN DeviceIdOf(picked.device) ELSE JNull} :
          \E chosen \in {IF ~picked.ok THEN picked
                         ELSE IF Truthy(device_id)
                         THEN [ok |-> TRUE, device_id |-> device_id]
                         ELSE Raise(NoIdError)} :
              /\ Logged(p, "devices", chosen.ok)
              /\ IF chosen.ok
                 THEN /\ pc' = [pc EXCEPT ![p] = "data"]
                      /\ locals' = [locals EXCEPT ![p].device_id = chosen.device_id]
                      /\ UNCHANGED <<exit_code, error>>
                 ELSE Failed(p, chosen.error)
    /\ UNCHANGED <<OUT_PATH, dir, inodes, clock, runs, out_at_start, written, observed, pureVars>>

\* Lines 283-286: the data request and the latest weight of its response.
Data(p) ==
    /\ pc[p] = "data"
    /\ \E resp \in DataOutcomes :
          \E latest \in {IF resp.ok THEN ExtractLatestWeight(resp.json) ELSE resp} :
              /\ Logged(p, "data", latest.ok)
              /\ IF latest.ok
                 THEN /\ pc' = [pc EXCEPT ![p] = "read_previous"]
                      /\ locals' = [locals EXCEPT ![p].weight_kg = latest.weight_kg,
                                                  ![p].measured_at = latest.measured_at]
                      /\ UNCHANGED <<exit_code, error>>
                 ELSE Failed(p, latest.error)
    /\ UNCHANGED <<OUT_PATH, dir, inodes, clock, runs, out_at_start, written, observed, pureVars>>

\* Lines 287-301: the time of the run, the previous snapshot, the target
\* weight and the payload.
ReadPrevious(p) ==
    /\ pc[p] = "read_previous"
    /\ clock' = clock + 1
    /\ \E previous \in ReadOutcomes(OutFile), raw \in TargetChoices :
          \E target \in {GetTargetWeightKg(raw)} :
              /\ Logged(p, "read", previous.ok /\ target.ok)
              /\ IF ~previous.ok THEN Failed(p, previous.error)
                 ELSE IF ~target.ok THEN Failed(p, target.error)
                 ELSE /\ pc' = [pc EXCEPT ![p] = "mkdir"]
                      /\ locals' =
                            [locals EXCEPT
                               ![p].read_case = previous.case,
                               ![p].payload =
                                  Payload(locals[p].weight_kg, target.kg,
                                          InitialWeightKg(
                                             ToFloat(Get(previous.value, "initialWeightKg")),
                                             locals[p].weight_kg),
                                          locals[p].measured_at, NowIso(clock))]
                      /\ UNCHANGED <<exit_code, error>>
    /\ UNCHANGED <<OUT_PATH, dir, inodes, runs, out_at_start, written, observed, pureVars>>

\* Line 303: OUT_PATH.parent.mkdir(parents=True, exist_ok=True)
MakeDirs(p) ==
    /\ pc[p] = "mkdir"
    /\ pc' = [pc EXCEPT ![p] = "open_tmp"]
    /\ UNCHANGED <<OUT_PATH, dir, inodes, locals, exit_code, error, clock, runs,
                   log, out_at_start, written, observed, pureVars>>

\* Lines 304-305, write_text opening the temporary path for writing: the
\* file it names is emptied, or a new one is made.
OpenTmp(p) ==
    /\ pc[p] = "open_tmp"
    /\ LET tmp_path == TmpPathOf(OUT_PATH)
           inode == IF dir[tmp_path] # 0 THEN dir[tmp_path] ELSE FreeInode
       IN  /\ dir' = [dir EXCEPT ![tmp_path] = inode]
           /\ inodes' = [inodes EXCEPT ![inode] = <<>>]
           /\ locals' = [locals EXCEPT ![p].fd = inode, ![p].offset = 0]
    /\ pc' = [pc EXCEPT ![p] = "write_tmp"]
    /\ Logged(p, "write", TRUE)
    /\ UNCHANGED <<OUT_PATH, exit_code, error, clock, runs, out_at_start, written,
                   observed, pureVars>>

\* Line 305, write_text writing: the next piece of the document goes to the
\* open file at the instance's own position; after the last one the file is
\* closed.
WriteChunk(p) ==
    /\ pc[p] = "write_tmp"
    /\ LET k == locals[p].offset + 1
           piece == [doc |-> JsonDumps(locals[p].payload), part |-> k]
           done == k = ChunksPerDoc
           localsN == [locals EXCEPT ![p].offset = k,
                                     ![p].fd = IF done THEN 0 ELSE @]
       IN  /\ locals' = localsN
           /\ inodes' = Collect(dir, [inodes EXCEPT ![locals[p].fd] = WriteAt(@, k, piece)],
                                localsN)
           /\ pc' = [pc EXCEPT ![p] = IF done THEN "replace" ELSE "write_tmp"]
    /\ UNCHANGED <<OUT_PATH, dir, exit_code, error, clock, runs, log, out_at_start,
                   written, observed, pureVars>>

\* Lines 306-309: tmp_path.replace(OUT_PATH), the rename of the temporary
\* path over the output path, and exit code 0; with no file at the temporary
\* path, FileNotFoundError.
ReplaceTmp(p) ==
    /\ pc[p] = "replace"
    /\ LET tmp_path == TmpPathOf(OUT_PATH)
           dirN == [path \in DOMAIN dir |->
                      IF path = OUT_PATH THEN dir[tmp_path]
                      ELSE IF path = tmp_path THEN 0 ELSE dir[path]]
       IN  IF dir[tmp_path] = 0
           THEN /\ Failed(p, ReplaceError)
                /\ UNCHANGED <<dir, inodes, written>>
           ELSE /\ dir' = dirN
                /\ inodes' = Collect(dirN, inodes, locals)
                /\ written' = Append(written, [by |-> p,
                                               payload |-> locals[p].payload,
                                               weight_kg |-> locals[p].weight_kg,
                                               read_case |-> locals[p].read_case,
                                               previous |-> out_at_start[p]])
                /\ pc' = [pc EXCEPT ![p] = "exited"]
                /\ exit_code' = [exit_code EXCEPT ![p] = 0]
                /\ locals' = [locals EXCEPT ![p] = NoLocals]
                /\ UNCHANGED error
    /\ UNCHANGED <<OUT_PATH, clock, runs, log, out_at_start, observed, pureVars>>

\* The instance is interrupted wherever it is; its open file is closed.
Kill(p) ==
    /\ Active(p)
    /\ pc' = [pc EXCEPT ![p] = "killed"]
    /\ locals' = [locals EXCEPT ![p] = NoLocals]
    /\ inodes' = Collect(dir, inodes, [locals EXCEPT ![p] = NoLocals])
    /\ UNCHANGED <<OUT_PATH, dir, exit_code, error, clock, runs, log, out_at_start,
                   written, observed, pureVars>>

\* A reader reads the output path.
Observe ==
    /\ observed # OutFile
    /\ observed' = OutFile
    /\ UNCHANGED <<OUT_PATH, dir, inodes, pc, locals, exit_code, error, clock, runs,
                   log, out_at_start, written, pureVars>>

\* The steps of main.
Steps(p) ==
    \/ Start(p)
    \/ Login(p)
    \/ Devices(p)
    \/ Data(p)
    \/ ReadPrevious(p)
    \/ MakeDirs(p)
    \/ OpenTmp(p)
    \/ WriteChunk(p)
    \/ ReplaceTmp(p)

\* Runs one after another, as the scheduler outside is expected to start
\* them, each of which may be interrupted.
Next == Steps(1) \/ Kill(1)

\* Two instances at once, and a reader.
NextRace == (\E p \in Procs : Steps(p)) \/ Observe

(***************************************************************************)
(* Properties of main.                                                     *)
(***************************************************************************)
InitialOf(payload) == Get(payload, "initialWeightKg")

\* The file that holds the whole snapshot of a payload.
SnapshotFile(payload) == [exists |-> TRUE, content |-> FileOf(JsonDumps(payload))]

\* _to_float of the initialWeightKg of the snapshot a file holds, not ok when
\* the file holds no JSON object.
PreviousInitial(file) ==
    IF /\ file.exists
       /\ IsComplete(file.content)
       /\ file.content[1].doc.kind = "json"
       /\ file.content[1].doc.value.t = "dict"
    THEN ToFloat(Get(file.content[1].doc.value, "initialWeightKg"))
    ELSE [ok |-> FALSE]

\* C1 as stated: in a sequence of successful runs on one output path, every
\* run writes the initialWeightKg the first run wrote; and a run that finds no
\* previous snapshot, or none with a numerically parseable initialWeightKg,
\* writes its own reading rounded to 1 decimal.
C1_InitialEqualsFirstRun ==
    \A i \in 1..Len(written) :
        /\ InitialOf(written[i].payload) = InitialOf(written[1].payload)
        /\ ~PreviousInitial(written[i].previous).ok
              => InitialOf(written[i].payload) = Round1(written[i].weight_kg)

\* C1 amended: in a sequence of successful runs on one output path, a run
\* that reads the previous snapshot without an I/O error writes the
\* initialWeightKg of the snapshot before it, so that as long as no read
\* fails every run writes the initialWeightKg the first run wrote; a run that
\* finds no previous snapshot, cannot read it, or finds no numerically
\* parseable initialWeightKg in it writes its own reading rounded to 1
\* decimal.
C1_InitialStickyWhileReadable ==
    \A i \in 1..Len(written) :
        /\ (\A j \in 2..i : written[j].read_case # "io_error")
              => InitialOf(written[i].payload) = InitialOf(written[1].payload)
        /\ (i > 1 /\ written[i].read_case # "io_error")
              => InitialOf(written[i].payload) = InitialOf(written[i - 1].payload)
        /\ (~PreviousInitial(written[i].previous).ok \/ written[i].read_case = "io_error")
              => InitialOf(written[i].payload) = Round1(written[i].weight_kg)

\* Two runs with different readings: the first finds no file and seeds the
\* baseline, the second keeps it.
C1_Witness ==
    /\ Len(written) = 2
    /\ written[1].read_case = "absent"
    /\ written[2].read_case = "object"
    /\ written[1].weight_kg # written[2].weight_kg
    /\ InitialOf(written[2].payload) = Round1(written[1].weight_kg)
    /\ InitialOf(written[2].payload) # Round1(written[2].weight_kg)

\* C2: while a run goes on, and after it was interrupted, the output path
\* holds what it held when the run began or the whole new snapshot, never a
\* part of one.
C2_OutputOldOrWholeNew ==
    pc[1] # "idle" =>
        \/ OutFile = out_at_start[1]
        \/ locals[1].payload # JNull /\ OutFile = SnapshotFile(locals[1].payload)
        \/ written # <<>> /\ OutFile = SnapshotFile(written[Len(written)].payload)

\* C3: with the default output path, whatever two instances do at once, a
\* reader finds at the output path the old content or the whole snapshot of
\* one instance, and once both are done the path holds the whole snapshot of
\* the instance that renamed last.
C3_ReaderSeesWholeSnapshots ==
    OUT_PATH.suffix = ".json" =>
        /\ observed.exists => IsComplete(observed.content)
        /\ ((\A p \in Procs : ~Active(p)) /\ written # <<>>)
              => OutFile = SnapshotFile(written[Len(written)].payload)

\* C4: a run that ends with an error ends with exit code 1, and the output
\* path holds what it held when the run began; no temporary file is left.
C4_FailedRunWritesNothing ==
    \A p \in Procs :
        (pc[p] = "exited" /\ error[p] # "") =>
            /\ exit_code[p] = 1
            /\ OutFile = out_at_start[p]
            /\ TmpPathOf(OUT_PATH) # OUT_PATH => ~FileAt(TmpPathOf(OUT_PATH)).exists

\* A second run fails on TARGET_WEIGHT_KG after a first one wrote a snapshot.
C4_Witness ==
    /\ pc[1] = "exited"
    /\ error[1] = TargetError
    /\ exit_code[1] = 1
    /\ Len(written) = 1
    /\ OutFile = SnapshotFile(written[1].payload)

\* Reading the file fails or gives no object: no file, bytes that are not
\* UTF-8, text that is not JSON, JSON that is no object.
Unreadable(file) ==
    \/ ~file.exists
    \/ /\ IsComplete(file.content)
       /\ \/ file.content[1].doc.kind \in {"not_utf8", "not_json"}
          \/ file.content[1].doc.kind = "json" /\ file.content[1].doc.value.t # "dict"

\* C5: whatever makes the previous snapshot unreadable (no file, an I/O
\* error, bytes that are not UTF-8, text that is not JSON, JSON that is no
\* object), the run is not ended by it, and the payload it goes on to write
\* has its initialWeightKg seeded from the reading.
C5_UnreadablePreviousIsAbsent ==
    \A p \in Procs :
        (Len(log[p]) >= 4 /\ (Unreadable(out_at_start[p]) \/ locals[p].read_case = "io_error"))
            => /\ error[p] # UnicodeError
               /\ locals[p].payload # JNull
                     => InitialOf(locals[p].payload) = Round1(locals[p].weight_kg)

StepOrder == <<"login", "devices", "data", "read", "write">>

\* C10: the steps of a run are, in this order and each at most once, the
\* login request, the devices request, the data request, the read of the
\* previous snapshot and the write of the snapshot; a step is started only
\* when every step before it succeeded, so the write comes only after a
\* weight was extracted.
C10_StepsInOrderOnce ==
    \A p \in Procs :
        /\ Len(log[p]) <= Len(StepOrder)
        /\ \A i \in 1..Len(log[p]) :
              /\ log[p][i].step = StepOrder[i]
              /\ i < Len(log[p]) => log[p][i].ok

\* A second run gets through every step after the first failed at login.
C10_Witness ==
    /\ runs = 2
    /\ pc[1] = "exited"
    /\ exit_code[1] = 0
    /\ Len(log[1]) = 5
    /\ Len(written) = 1

(***************************************************************************)
(* Specifications.                                                         *)
(***************************************************************************)
InitTime == TimeInit /\ PickIdle /\ ExtractIdle /\ MainIdle

\* _parse_time on its own
SpecTime == InitTime /\ [][TimeNext]_vars

InitPick == PickInit /\ TimeIdle /\ ExtractIdle /\ MainIdle

\* _pick_scale_device on its own
SpecPick == InitPick /\ [][Pick]_vars

InitExtract == ExtractInit /\ TimeIdle /\ PickIdle /\ MainIdle

\* _extract_latest_weight on its own
SpecExtract == InitExtract /\ [][Extract]_vars


Init == MainInit /\ TimeIdle /\ PickIdle /\ ExtractIdle

\* main(), run after run
Spec == Init /\ [][Next]_vars

\* main(), two instances at once
SpecRace == Init /\ [][NextRace]_vars

====
